---- MODULE Spec2Model ----
(***************************************************************************)
(* Model of pytest-select (src/pytest_select/plugin.py): the two hooks     *)
(* pytest_report_header and pytest_collection_modifyitems, the option      *)
(* validation they share, the loading of the selection file and the        *)
(* partition of the collected items.                                       *)
(*                                                                         *)
(* Strings are sequences of one-character strings, so that strip(),        *)
(* startswith() and fnmatch() are computed character by character.         *)
(* The alphabet has no "-" and no backslash: character classes of the      *)
(* patterns are therefore the plain ones ("[xy]", "[!y]").                 *)
(***************************************************************************)
EXTENDS Integers, Sequences, FiniteSets, TLC

\* ------------------------------------------------------------------ bounds
\* Longest selection file, in lines.
MaxLines == 2
\* Longest collection of test items.
MaxItems == 3

\* ----------------------------------------------------------------- strings
None == "None"

\* str.isspace() on the alphabet.
Whitespace == {" ", "\t", "\n"}

\* s[i:] with a 1-based first index.
Drop(s, i) == SubSeq(s, i, Len(s))

\* str.lstrip()
RECURSIVE LStrip(_)
LStrip(s) ==
    IF s # <<>> /\ Head(s) \in Whitespace THEN LStrip(Tail(s)) ELSE s

\* str.rstrip()
RECURSIVE RStrip(_)
RStrip(s) ==
    IF s # <<>> /\ s[Len(s)] \in Whitespace
    THEN RStrip(SubSeq(s, 1, Len(s) - 1))
    ELSE s

\* str.strip()
Strip(s) == RStrip(LStrip(s))

\* str.startswith(prefix)
StartsWith(s, prefix) ==
    /\ Len(s) >= Len(prefix)
    /\ SubSeq(s, 1, Len(prefix)) = prefix

\* ----------------------------------------------------------------- fnmatch
\* fnmatch.translate: position of the "]" closing the class opened by the
\* "[" at p[1], or 0 when the "[" is a literal one.
RECURSIVE ScanClass(_, _)
ScanClass(p, j) ==
    IF j > Len(p) THEN 0
    ELSE IF p[j] = "]" THEN j
    ELSE ScanClass(p, j + 1)

ClassEnd(p) ==
    LET j1 == IF 2 <= Len(p) /\ p[2] = "!" THEN 3 ELSE 2
        j2 == IF j1 <= Len(p) /\ p[j1] = "]" THEN j1 + 1 ELSE j1
    IN  ScanClass(p, j2)

\* Does the character c belong to the class whose body is stuff?
ClassMatches(stuff, c) ==
    IF stuff = <<>> THEN FALSE
    ELSE IF stuff = <<"!">> THEN TRUE
    ELSE IF Head(stuff) = "!"
         THEN \A k \in 2..Len(stuff) : stuff[k] # c
         ELSE \E k \in 1..Len(stuff) : stuff[k] = c

\* fnmatch.fnmatchcase(name, pat): the whole name matches the pattern.
RECURSIVE FnMatchCase(_, _)
FnMatchCase(name, pat) ==
    IF pat = <<>> THEN name = <<>>
    ELSE
      LET c == Head(pat) IN
      CASE c = "*" ->
             \/ FnMatchCase(name, Tail(pat))
             \/ name # <<>> /\ FnMatchCase(Tail(name), pat)
        [] c = "?" ->
             name # <<>> /\ FnMatchCase(Tail(name), Tail(pat))
        [] c = "[" ->
             LET j == ClassEnd(pat) IN
             IF j = 0
             THEN /\ name # <<>>
                  /\ Head(name) = "["
                  /\ FnMatchCase(Tail(name), Tail(pat))
             ELSE /\ name # <<>>
                  /\ ClassMatches(SubSeq(pat, 2, j - 1), Head(name))
                  /\ FnMatchCase(Tail(name), Drop(pat, j + 1))
        [] OTHER ->
             /\ name # <<>>
             /\ Head(name) = c
             /\ FnMatchCase(Tail(name), Tail(pat))

\* fnmatch.fnmatch on a POSIX host, where os.path.normcase is the identity.
FnMatch(name, pat) == FnMatchCase(name, pat)

\* ------------------------------------------------------------ the universe
\* Test items: item.nodeid (full identifier) and item.name (short name).
Item(nodeid, name) == [nodeid |-> nodeid, name |-> name]

TestItems ==
    { Item(<<"a", ":", "x">>, <<"x">>),
      Item(<<"a", ":", "y">>, <<"y">>),
      Item(<<"b", ":", "x">>, <<"x">>),
      Item(<<"b", ":", "y">>, <<"y">>) }

\* Lines a selection file may hold, as iterating the open file yields them
\* (newline included, except on a last line without one).
FileLines ==
    { <<"a", ":", "*", "\n">>,
      <<"\t", "x", " ", "\n">>,
      <<"x", "\n">>,
      <<"#", "x", "\n">>,
      <<" ", "#", "x", "\n">>,
      <<"\n">>,
      <<"z">>,
      <<"?", ":", "[", "!", "y", "]", "\n">> }

\* Sequences over S of length at most n.
SeqsUpTo(S, n) == UNION { [1..k -> S] : k \in 0..n }

\* Sequences without repetition.
IsInjective(s) == \A i, j \in 1..Len(s) : s[i] = s[j] => i = j

\* The collections the host may have discovered: node ids are unique.
Collections == { s \in SeqsUpTo(TestItems, MaxItems) : IsInjective(s) }

\* The contents a selection file may have.
FileContents == SeqsUpTo(FileLines, MaxLines)

\* Values of the two file options, and the state of the file system.
Paths == {"sel.txt", "missing.txt", "locked.txt"}
ExistingFiles == {"sel.txt", "locked.txt"}
ReadableFiles == {"sel.txt"}

Configs ==
    [selectfromfile : {None} \cup Paths,
     deselectfromfile : {None} \cup Paths,
     selectfailonmissing : BOOLEAN]

\* The orders in which iterating the set S may yield its members.
Orders(S) == { s \in [1..Cardinality(S) -> S] : IsInjective(s) }

\* ---------------------------------------------------------------- the state
VARIABLES
    pc,                          \* position of the host in its life cycle
    config,                      \* the option values of the run
    collected,                   \* the items the host discovered
    items,                       \* the host's working collection
    fs_log,                      \* file-system calls made so far
    selection_file,              \* lines read from the selection file
    test_patterns,               \* patterns loaded from the file
    test_patterns_that_matched,  \* patterns that matched some item
    selected_items,              \* kept partition
    deselected_items,            \* removed partition
    error,                       \* the error that ended the run
    messages,                    \* messages built, each the patterns it lists in order
    warnings,                    \* messages passed to warnings.warn
    deselected_calls,            \* arguments of config.hook.pytest_deselected
    header                       \* lines returned by pytest_report_header

vars == <<pc, config, collected, items, fs_log, selection_file, test_patterns,
          test_patterns_that_matched, selected_items, deselected_items,
          error, messages, warnings, deselected_calls, header>>

\* ------------------------------------------------------------ the functions
\* _validate_option_values: the error raised (or None) and the paths whose
\* existence was checked, in order.
RECURSIVE CheckFilesExist(_, _)
CheckFilesExist(option_values, checked) ==
    IF option_values = <<>> THEN [error |-> None, checked |-> checked]
    ELSE IF Head(option_values) = None
         THEN CheckFilesExist(Tail(option_values), checked)
    ELSE IF Head(option_values) \notin ExistingFiles
         THEN [error |-> "SelectionFileNotFound",
               checked |-> Append(checked, Head(option_values))]
    ELSE CheckFilesExist(Tail(option_values),
                         Append(checked, Head(option_values)))

ValidateMutFilesFirst(cfg) ==
    LET r == CheckFilesExist(<<cfg.selectfromfile, cfg.deselectfromfile>>, <<>>)
    IN  IF r.error = None
           /\ cfg.selectfromfile # None /\ cfg.deselectfromfile # None
        THEN [error |-> "ConfigurationConflict", checked |-> r.checked]
        ELSE r

_validate_option_values(cfg) ==
    IF cfg.selectfromfile # None /\ cfg.deselectfromfile # None
    THEN [error |-> "ConfigurationConflict", checked |-> <<>>]
    ELSE CheckFilesExist(<<cfg.selectfromfile, cfg.deselectfromfile>>, <<>>)

\* The fs_log entries of the existence checks.
ExistsCalls(checked) == [i \in 1..Len(checked) |-> <<"exists", checked[i]>>]

\* The options that are set, in the order the hooks try them, each with its
\* selecting / should_select flag.
RECURSIVE ActiveOptions(_)
ActiveOptions(options) ==
    IF options = <<>> THEN <<>>
    ELSE IF Head(options).value = None THEN ActiveOptions(Tail(options))
    ELSE <<Head(options)>> \o ActiveOptions(Tail(options))

OptionsOfMutNoSkip(cfg) ==
    << [value |-> cfg.selectfromfile, selecting |-> TRUE],
       [value |-> cfg.deselectfromfile, selecting |-> FALSE] >>

OptionsOf(cfg) ==
    ActiveOptions(<< [value |-> cfg.selectfromfile, selecting |-> TRUE],
                     [value |-> cfg.deselectfromfile, selecting |-> FALSE] >>)

\* The set comprehension that loads the patterns of a selection file.
LoadMutStripFirst(lines) ==
    { Strip(lines[i]) : i \in { k \in 1..Len(lines) :
                                  ~ StartsWith(Strip(lines[k]), <<"#">>) } }

LoadPatterns(lines) ==
    { Strip(lines[i]) : i \in { k \in 1..Len(lines) :
                                  ~ StartsWith(lines[k], <<"#">>) } }

\* The condition of the inner loop: does test_pattern match item?
PatternMatchesMutGlobOnly(item, test_pattern) == FnMatch(item.nodeid, test_pattern)

PatternMatches(item, test_pattern) ==
    \/ FnMatch(item.nodeid, test_pattern)
    \/ item.name = test_pattern

\* The loop over the items: every item is appended to one of the two lists
\* and every pattern that matched it is recorded.
RECURSIVE PartitionLoopMutBreak(_, _, _, _, _)
PartitionLoopMutBreak(its, patterns, matched, selected, deselected) ==
    IF its = <<>>
    THEN [matched |-> matched, selected |-> selected, deselected |-> deselected]
    ELSE
      LET item == Head(its)
          hits == { p \in patterns : FnMatch(item.nodeid, p) \/ item.name = p }
          first == IF hits = {} THEN {}
                   ELSE { CHOOSE p \in hits : TRUE }
      IN  PartitionLoopMutBreak(Tail(its), patterns, matched \cup first,
                        IF hits # {} THEN Append(selected, item) ELSE selected,
                        IF hits # {} THEN deselected ELSE Append(deselected, item))

RECURSIVE PartitionLoop(_, _, _, _, _)
PartitionLoop(its, patterns, matched, selected, deselected) ==
    IF its = <<>>
    THEN [matched |-> matched, selected |-> selected, deselected |-> deselected]
    ELSE
      LET item == Head(its)
          hits == { p \in patterns : PatternMatches(item, p) }
          has_match == hits # {}
      IN  PartitionLoop(Tail(its), patterns, matched \cup hits,
                        IF has_match THEN Append(selected, item) ELSE selected,
                        IF has_match THEN deselected ELSE Append(deselected, item))

\* The partition after the flip of the deselecting mode.
PartitionMutPrepend(its, patterns, should_select) ==
    LET r == PartitionLoop(its, patterns, {}, <<>>, <<>>)
        Rev(s) == [i \in 1..Len(s) |-> s[Len(s) + 1 - i]]
    IN  IF should_select
        THEN [r EXCEPT !.selected = Rev(r.selected)]
        ELSE [r EXCEPT !.selected = r.deselected, !.deselected = r.selected]

PartitionMutDropFirst(its, patterns, should_select) ==
    LET r == PartitionLoop(its, patterns, {}, <<>>, <<>>)
        d == IF r.deselected = <<>> THEN <<>> ELSE Tail(r.deselected)
    IN  IF should_select
        THEN [r EXCEPT !.deselected = d]
        ELSE [r EXCEPT !.selected = d, !.deselected = r.selected]

Partition(its, patterns, should_select) ==
    LET r == PartitionLoop(its, patterns, {}, <<>>, <<>>)
    IN  IF should_select
        THEN r
        ELSE [r EXCEPT !.selected = r.deselected, !.deselected = r.selected]

\* The control flow after the partition: is the message built, is it
\* raised as a UsageError or passed to warnings.warn, and are the slice
\* assignment and the pytest_deselected call reached?
ReportMissingMutApplyThenRaise(unmatched, fail_on_missing) ==
    [reported |-> unmatched # {},
     raised   |-> unmatched # {} /\ fail_on_missing,
     warned   |-> unmatched # {} /\ ~ fail_on_missing,
     applied  |-> TRUE]

ReportMissingMutAlwaysRaise(unmatched, fail_on_missing) ==
    [reported |-> unmatched # {},
     raised   |-> unmatched # {},
     warned   |-> FALSE,
     applied  |-> unmatched = {}]

ReportMissing(unmatched, fail_on_missing) ==
    [reported |-> unmatched # {},
     raised   |-> unmatched # {} /\ fail_on_missing,
     warned   |-> unmatched # {} /\ ~ fail_on_missing,
     applied  |-> ~ (unmatched # {} /\ fail_on_missing)]

\* The lines pytest_report_header returns (none when it returns None).
HeaderLine(cfg) ==
    LET active == OptionsOf(cfg)
    IN  IF active = <<>> THEN <<>>
        ELSE << [de |-> ~ active[1].selecting,
                 path |-> active[1].value,
                 failing |-> cfg.selectfailonmissing] >>

\* ------------------------------------------------------------- the actions
Init ==
    /\ pc = "start"
    /\ config \in Configs
    /\ collected \in Collections
    /\ items = collected
    /\ fs_log = <<>>
    /\ selection_file = <<>>
    /\ test_patterns = {}
    /\ test_patterns_that_matched = {}
    /\ selected_items = <<>>
    /\ deselected_items = <<>>
    /\ error = None
    /\ messages = <<>>
    /\ warnings = <<>>
    /\ deselected_calls = <<>>
    /\ header = <<>>

\* pytest_report_header(config)
pytest_report_header ==
    /\ pc = "start"
    /\ LET v == _validate_option_values(config) IN
       /\ fs_log' = fs_log \o ExistsCalls(v.checked)
       /\ error' = v.error
       /\ IF v.error # None
          THEN /\ pc' = "failed"
               /\ header' = <<>>
          ELSE /\ pc' = "collecting"
               /\ header' = HeaderLine(config)
    /\ UNCHANGED <<config, collected, items, selection_file, test_patterns,
                   test_patterns_that_matched, selected_items,
                   deselected_items, messages, warnings, deselected_calls>>

\* The hook ends before any file is opened: validation failed, or no
\* option is set.
ModifyItemsWithoutFile(v, active) ==
    /\ v.error # None \/ active = <<>>
    /\ fs_log' = fs_log \o ExistsCalls(v.checked)
    /\ error' = v.error
    /\ pc' = IF v.error # None THEN "failed" ELSE "done"
    /\ UNCHANGED <<items, selection_file, test_patterns,
                   test_patterns_that_matched, selected_items,
                   deselected_items, messages, warnings, deselected_calls>>

\* Opening the selection file fails.
ModifyItemsOpenFails(v, active) ==
    /\ v.error = None /\ active # <<>>
    /\ active[1].value \notin ReadableFiles
    /\ fs_log' = fs_log \o ExistsCalls(v.checked)
                        \o << <<"open", active[1].value>> >>
    /\ error' = "IOError"
    /\ pc' = "failed"
    /\ UNCHANGED <<items, selection_file, test_patterns,
                   test_patterns_that_matched, selected_items,
                   deselected_items, messages, warnings, deselected_calls>>

\* The file is read, the items are partitioned, unmatched patterns are
\* reported and, unless the report is fatal, the partition is applied.
ModifyItemsPartition(v, active) ==
    /\ v.error = None /\ active # <<>>
    /\ active[1].value \in ReadableFiles
    /\ fs_log' = fs_log \o ExistsCalls(v.checked)
                        \o << <<"open", active[1].value>> >>
    /\ \E lines \in FileContents :
         LET patterns == LoadPatterns(lines)
             r == Partition(items, patterns, active[1].selecting)
             test_patterns_that_did_not_match == patterns \ r.matched
             flow == ReportMissing(test_patterns_that_did_not_match,
                                   config.selectfailonmissing)
         IN
         /\ selection_file' = lines
         /\ test_patterns' = patterns
         /\ test_patterns_that_matched' = r.matched
         /\ selected_items' = r.selected
         /\ deselected_items' = r.deselected
         /\ \E order \in Orders(test_patterns_that_did_not_match) :
              /\ messages' = IF flow.reported THEN Append(messages, order)
                             ELSE messages
              /\ warnings' = IF flow.warned THEN Append(warnings, order)
                             ELSE warnings
         /\ error' = IF flow.raised THEN "MissingSelectionTargets" ELSE None
         /\ pc' = IF flow.raised THEN "failed" ELSE "done"
         /\ items' = IF flow.applied THEN r.selected ELSE items
         /\ deselected_calls' =
              IF flow.applied THEN Append(deselected_calls, r.deselected)
              ELSE deselected_calls

\* pytest_collection_modifyitems(session, config, items)
pytest_collection_modifyitems ==
    /\ pc = "collecting"
    /\ LET v == _validate_option_values(config)
           active == OptionsOf(config)
       IN  \/ ModifyItemsWithoutFile(v, active)
           \/ ModifyItemsOpenFails(v, active)
           \/ ModifyItemsPartition(v, active)
    /\ UNCHANGED <<config, collected, header>>

Next ==
    \/ pytest_report_header
    \/ pytest_collection_modifyitems

Spec == Init /\ [][Next]_vars

\* ------------------------------------------------------------ the claims
ToSet(s) == { s[i] : i \in 1..Len(s) }

\* The run read its selection file and computed a partition.
PartitionComputed ==
    \E i \in 1..Len(fs_log) :
        fs_log[i][1] = "open" /\ fs_log[i][2] \in ReadableFiles

SelectMode == config.selectfromfile # None /\ config.deselectfromfile = None
DeselectMode == config.selectfromfile = None /\ config.deselectfromfile # None
Inactive == config.selectfromfile = None /\ config.deselectfromfile = None

\* Some loaded pattern glob-matches the node id of item or equals its name.
IsMatched(item) ==
    \E p \in test_patterns : FnMatch(item.nodeid, p) \/ item.name = p

\* The loaded patterns that matched no collected item.
UnmatchedPatterns ==
    { p \in test_patterns :
        \A i \in 1..Len(collected) :
            ~ FnMatch(collected[i].nodeid, p) /\ collected[i].name # p }

\* s holds members of t, each once, in the order they have in t
\* (t has no repetition).
IsSubsequence(s, t) ==
    /\ IsInjective(s)
    /\ ToSet(s) \subseteq ToSet(t)
    /\ \A i, j \in 1..Len(s) :
         i < j => \E a, b \in 1..Len(t) : a < b /\ t[a] = s[i] /\ t[b] = s[j]

\* C1: whenever a partition is computed, in Select mode and in Deselect mode,
\* every collected item is in exactly one of the kept and removed lists:
\* their union is the collection, they are disjoint and nothing is duplicated.
C1_PartitionTotalDisjoint ==
    PartitionComputed =>
        /\ ToSet(selected_items) \cup ToSet(deselected_items) = ToSet(collected)
        /\ ToSet(selected_items) \cap ToSet(deselected_items) = {}
        /\ Len(selected_items) + Len(deselected_items) = Len(collected)

C1_Witness ==
    /\ PartitionComputed
    /\ SelectMode
    /\ Len(selected_items) >= 1
    /\ Len(deselected_items) >= 2

\* C2: in Select mode kept is exactly the items some pattern glob-matches by
\* node id or equals by short name and removed is the others; in Deselect
\* mode the same classification is used with the two roles flipped.
C2_MatchedItemsByMode ==
    PartitionComputed =>
        LET Hit(item) == IsMatched(item)
            Miss(item) == ~ IsMatched(item)
        IN  /\ SelectMode =>
                /\ selected_items = SelectSeq(collected, Hit)
                /\ deselected_items = SelectSeq(collected, Miss)
            /\ DeselectMode =>
                /\ selected_items = SelectSeq(collected, Miss)
                /\ deselected_items = SelectSeq(collected, Hit)
            /\ SelectMode \/ DeselectMode

\* A Deselect run in which an item is removed because a pattern equals its
\* short name although no pattern glob-matches its node id.
C2_Witness ==
    /\ PartitionComputed
    /\ DeselectMode
    /\ selected_items # <<>>
    /\ \E i \in 1..Len(deselected_items) :
         /\ \A p \in test_patterns : ~ FnMatch(deselected_items[i].nodeid, p)
         /\ deselected_items[i].name \in test_patterns

\* C3: kept and removed are subsequences of the collection, and after a
\* successful active run the host's collection is the kept list.
C3_OrderPreserved ==
    PartitionComputed =>
        /\ IsSubsequence(selected_items, collected)
        /\ IsSubsequence(deselected_items, collected)
        /\ pc = "done" =>
             /\ items = selected_items
             /\ IsSubsequence(items, collected)

C3_Witness ==
    /\ PartitionComputed
    /\ pc = "done"
    /\ Len(items) >= 2
    /\ Len(deselected_items) >= 1
    /\ collected[1] \notin ToSet(items)

\* C4: when a pattern matched nothing and selectfailonmissing is set, the run
\* fails with the missing-targets error, the host's collection is what it
\* was before the call and pytest_deselected is not called.
C4_FatalLeavesCollection ==
    (PartitionComputed /\ UnmatchedPatterns # {} /\ config.selectfailonmissing) =>
        /\ pc = "failed"
        /\ error = "MissingSelectionTargets"
        /\ items = collected
        /\ deselected_calls = <<>>

\* A fatal run whose computed partition differs from the collection.
C4_Witness ==
    /\ PartitionComputed
    /\ error = "MissingSelectionTargets"
    /\ selected_items # collected
    /\ selected_items # <<>>

\* C5 as stated: every active run that computed its partition notified the
\* removed items exactly once.
C5_Original ==
    (PartitionComputed /\ pc \in {"done", "failed"}) =>
        Len(deselected_calls) = 1

\* C5 amended: every active run that computed its partition and did not
\* abort with the fatal missing-targets error notified the removed items
\* exactly once and applied the partition; with selectfailonmissing unset
\* an unmatched pattern only produces one warning.  No run notifies twice.
C5_NotifiedOnceUnlessFatal ==
    /\ Len(deselected_calls) <= 1
    /\ (PartitionComputed /\ error # "MissingSelectionTargets") =>
        /\ pc = "done"
        /\ error = None
        /\ deselected_calls = <<deselected_items>>
        /\ items = selected_items
    /\ (PartitionComputed /\ ~ config.selectfailonmissing) =>
        /\ error = None
        /\ UnmatchedPatterns # {} => Len(messages) = 1 /\ warnings = messages

\* A warning run that keeps nothing and still notifies the removed items.
C5_Witness ==
    /\ PartitionComputed
    /\ ~ config.selectfailonmissing
    /\ warnings # <<>>
    /\ collected # <<>>
    /\ items = <<>>
    /\ deselected_calls = <<collected>>

\* C6: when both file options are set the run fails with the conflict error
\* before any file is touched: no existence check, no open, no loading, no
\* change of the collection and no notification.
C6_ConflictBeforeFiles ==
    (config.selectfromfile # None /\ config.deselectfromfile # None) =>
        /\ pc \in {"start", "failed"}
        /\ pc = "failed" => error = "ConfigurationConflict"
        /\ fs_log = <<>>
        /\ ~ PartitionComputed
        /\ test_patterns = {}
        /\ items = collected
        /\ deselected_calls = <<>>

\* The conflict is reported although one of the paths does not exist.
C6_Witness ==
    /\ pc = "failed"
    /\ error = "ConfigurationConflict"
    /\ config.selectfromfile = "missing.txt"
    /\ config.deselectfromfile = "sel.txt"

\* Code points of the characters used, for the ordering sorted() applies.
CharCode ==
    [c \in {"\t", "\n", " ", "!", "#", "*", ":", "?", "[", "]",
            "a", "b", "x", "y", "z"} |->
        CASE c = "\t" -> 9   [] c = "\n" -> 10  [] c = " " -> 32
          [] c = "!" -> 33   [] c = "#" -> 35   [] c = "*" -> 42
          [] c = ":" -> 58   [] c = "?" -> 63   [] c = "[" -> 91
          [] c = "]" -> 93   [] c = "a" -> 97   [] c = "b" -> 98
          [] c = "x" -> 120  [] c = "y" -> 121  [] c = "z" -> 122]

\* Lexicographic order of strings by code point: a < b in Python.
RECURSIVE StrLess(_, _)
StrLess(a, b) ==
    IF b = <<>> THEN FALSE
    ELSE IF a = <<>> THEN TRUE
    ELSE IF Head(a) # Head(b) THEN CharCode[Head(a)] < CharCode[Head(b)]
    ELSE StrLess(Tail(a), Tail(b))

\* s is in strictly increasing order.
IsSorted(s) == \A i, j \in 1..Len(s) : i < j => StrLess(s[i], s[j])

\* C7: the message that reports unmatched patterns lists them in sorted
\* order.
C7_MessageSorted ==
    \A i \in 1..Len(messages) : IsSorted(messages[i])

\* C8: with neither file option set the matcher is not invoked: no file is
\* checked or opened, the collection is unchanged, nothing is notified, no
\* header line is produced and the run ends normally.
C8_InactivePassThrough ==
    Inactive =>
        /\ pc # "failed"
        /\ error = None
        /\ fs_log = <<>>
        /\ ~ PartitionComputed
        /\ items = collected
        /\ deselected_calls = <<>>
        /\ warnings = <<>>
        /\ header = <<>>

C8_Witness ==
    /\ Inactive
    /\ pc = "done"
    /\ Len(collected) >= 2

\* p is line without its leading and trailing whitespace.
IsTrimOf(p, line) ==
    \E a \in 1..Len(line) + 1 : \E b \in 0..Len(line) :
        /\ p = SubSeq(line, a, b)
        /\ \A k \in 1..Len(line) : (k < a \/ k > b) => line[k] \in Whitespace
        /\ p # <<>> => p[1] \notin Whitespace /\ p[Len(p)] \notin Whitespace

\* C9: a line is dropped iff its first character, before trimming, is "#";
\* every other line contributes its trimmed form; duplicates collapse.
C9_LoadedPatterns ==
    PartitionComputed =>
        LET kept == { k \in 1..Len(selection_file) :
                        selection_file[k] = <<>> \/ selection_file[k][1] # "#" }
        IN  /\ \A k \in kept : \E p \in test_patterns :
                                 IsTrimOf(p, selection_file[k])
            /\ \A p \in test_patterns : \E k \in kept :
                                 IsTrimOf(p, selection_file[k])
            /\ Cardinality(test_patterns) <= Cardinality(kept)

\* A comment line is dropped while an indented "#" line becomes a pattern.
C9_Witness ==
    /\ PartitionComputed
    /\ selection_file = << <<"#", "x", "\n">>, <<" ", "#", "x", "\n">> >>
    /\ test_patterns = { <<"#", "x">> }

\* C10: the patterns not recorded as matched are exactly the loaded patterns
\* that match no collected item; something is reported (warning or error)
\* iff there is one; an empty pattern set reports nothing, Select keeps
\* nothing and Deselect keeps everything.
C10_UnmatchedPatterns ==
    PartitionComputed =>
        /\ test_patterns \ test_patterns_that_matched = UnmatchedPatterns
        /\ test_patterns_that_matched \subseteq test_patterns
        /\ messages # <<>> <=> UnmatchedPatterns # {}
        /\ (error = "MissingSelectionTargets" \/ warnings # <<>>)
              <=> UnmatchedPatterns # {}
        /\ \A i \in 1..Len(messages) : ToSet(messages[i]) = UnmatchedPatterns
        /\ test_patterns = {} =>
              /\ messages = <<>>
              /\ SelectMode => selected_items = <<>>
              /\ DeselectMode => selected_items = collected

\* A run with one pattern that matched an item and one that matched none.
C10_Witness ==
    /\ PartitionComputed
    /\ Cardinality(test_patterns_that_matched) = 1
    /\ Cardinality(UnmatchedPatterns) = 1
    /\ warnings # <<>>
    /\ selected_items # <<>>

====
